---- MODULE Spec2Model ----
(***************************************************************************)
(* A model of libheadway's local tile service: the TileCollection          *)
(* (map_tiles/tile_collection.rs), the Extractor (map_tiles/extract.rs),   *)
(* the HeadwayServer that composes them behind two tokio RwLocks           *)
(* (server/mod.rs) and the tile HTTP route (server/tileserver.rs).         *)
(*                                                                         *)
(* Every task is one caller of the server: a host application calling the  *)
(* exported async API, or the HTTP route.  A task's pc names the step it   *)
(* is about to take; steps are cut at the awaits and the filesystem calls  *)
(* of the source.                                                          *)
(***************************************************************************)
EXTENDS Naturals, Sequences, FiniteSets

VARIABLES
    fs,          \* the disk: canonical path -> content of the file there
    sources,     \* TileCollection.pmtiles_sources, in registration order
    started,     \* HeadwayServer::new has run load_tiles_from_storage
    collWriter,  \* task holding tile_collection.write(), 0 when none
    collReaders, \* tasks holding tile_collection.read()
    extWriter,   \* task holding extractor.write(), 0 when none
    extReader,   \* Extractor.reader: "none" or "ready"
    opened,      \* how many remote backends this Extractor has opened
    usedUuids,   \* how many Uuid::new_v4 values were drawn so far
    calls,       \* calls started so far
    pc,          \* per task: the step it is about to take
    loc          \* per task: the arguments and locals of its current call

vars == <<fs, sources, started, collWriter, collReaders, extWriter, extReader,
          opened, usedUuids, calls, pc, loc>>

----------------------------------------------------------------------------
(* Bounds of the model.                                                    *)

NumTasks == 2
MaxCalls == 2
MaxExtracts == 1

Tasks == 1..NumTasks

----------------------------------------------------------------------------
(* Paths: std::path::Path as the sequence of its components, from the      *)
(* filesystem root.  A component is a name split at its last dot.          *)

Comp(stem, ext) == [stem |-> stem, ext |-> ext]
ParentDir == Comp("..", "")

FileRoot == <<Comp("tiles", "")>>

\* TileCollection::user_extracts_root
user_extracts_root == Append(FileRoot, Comp("user", ""))

\* TileCollection::system_root
system_root == Append(FileRoot, Comp("system", ""))

\* Path::file_name: None (here "none") when the path ends in ".." or is empty
HasFileName(path) == Len(path) > 0 /\ path[Len(path)] # ParentDir

\* Path::extension: None (here "") without a file name or without a dot
Extension(path) == IF HasFileName(path) THEN path[Len(path)].ext ELSE ""

\* Path::with_extension
WithExtension(path, ext) ==
    IF HasFileName(path)
    THEN [path EXCEPT ![Len(path)] = Comp(path[Len(path)].stem, ext)]
    ELSE path

\* Path::parent
Parent(path) == SubSeq(path, 1, Len(path) - 1)

\* PathBuf::push: an absolute argument replaces the path
Push(path, rel) == IF rel.abs THEN rel.comps ELSE path \o rel.comps

\* Path::canonicalize on a disk without symbolic links: ".." steps out of
\* the directory reached so far
RECURSIVE Canon(_, _)
Canon(done, rest) ==
    IF rest = <<>> THEN done
    ELSE IF rest[1] = ParentDir
         THEN Canon(IF done = <<>> THEN done ELSE Parent(done), Tail(rest))
         ELSE Canon(Append(done, rest[1]), Tail(rest))

Canonicalize(path) == Canon(<<>>, path)

\* Path::starts_with: whole components only
StartsWith(path, dir) ==
    Len(dir) <= Len(path) /\ SubSeq(path, 1, Len(dir)) = dir

\* std::fs::exists
Exists(disk, path) == Canonicalize(path) \in DOMAIN disk

Put(disk, path, content) ==
    [p \in DOMAIN disk \cup {Canonicalize(path)} |->
        IF p = Canonicalize(path) THEN content ELSE disk[p]]

Del(disk, path) ==
    [p \in DOMAIN disk \ {Canonicalize(path)} |-> disk[p]]

----------------------------------------------------------------------------
(* File contents and what a reader finds in them.                          *)

\* Contents that AsyncPmTilesReader::new_with_path opens; "truncated" is the
\* extracted archive without its tail: header and directories are whole
Archives == {"planet", "region", "damaged", "truncated"}
\* Contents it rejects: a file that is no archive, a file cut off early
Contents == Archives \cup {"garbage", "partial"}

\* Tile coordinates (z, x, y)
Coord(z, x, y) == [z |-> z, x |-> x, y |-> y]
T00 == Coord(0, 0, 0)
T10 == Coord(1, 1, 0)
TBad == Coord(0, 1, 0)

RECURSIVE Pow2(_)
Pow2(n) == IF n = 0 THEN 1 ELSE 2 * Pow2(n - 1)

\* TileCoord::new: x and y lie inside the zoom level's grid
ValidCoord(c) == c.x < Pow2(c.z) /\ c.y < Pow2(c.z)

\* AsyncPmTilesReader::get_tile on a file of the given content: tile bytes,
\* "absent" (Ok(None)) or "error"
ReaderGetTile(content, c) ==
    CASE content = "planet" -> IF c = T00 THEN "p00" ELSE "p10"
      [] content = "region" -> IF c = T00 THEN "r00" ELSE "absent"
      [] content = "damaged" -> IF c = T00 THEN "error" ELSE "d10"
      [] content = "truncated" -> IF c = T00 THEN "error" ELSE "absent"
      [] OTHER -> "error"

----------------------------------------------------------------------------
(* TileCollection (map_tiles/tile_collection.rs).                          *)

\* PmTilesSource::get_tile: TileCoord::new(z, x, y)? and then the reader
SourceGetTile(source, c) ==
    IF ~ValidCoord(c) THEN "error" ELSE ReaderGetTile(source.content, c)

\* The loop of TileCollection::get_tile from source i on: `?` returns the
\* first error, the first Some(tile) is returned, None moves on.  The
\* result says how many sources were asked.
RECURSIVE GetTileFrom(_, _, _)
GetTileFrom(srcs, i, c) ==
    IF i > Len(srcs) THEN [tile |-> "absent", asked |-> Len(srcs)]
    ELSE LET r == SourceGetTile(srcs[i], c)
         IN  IF r = "error" THEN [tile |-> "error", asked |-> i]
             ELSE IF r # "absent" THEN [tile |-> r, asked |-> i]
             ELSE GetTileFrom(srcs, i + 1, c)

\* A lookup that lets the last registered source win
Reversed(srcs) == [i \in 1..Len(srcs) |-> srcs[Len(srcs) + 1 - i]]
MutGetTileLastWins(srcs, c) ==
    [tile |-> GetTileFrom(Reversed(srcs), 1, c).tile,
     asked |-> GetTileFrom(srcs, 1, c).asked]

\* A lookup that treats a source's read error as absence and moves on
RECURSIVE MutSkipErrorsFrom(_, _, _)
MutSkipErrorsFrom(srcs, i, c) ==
    IF i > Len(srcs) THEN [tile |-> "absent", asked |-> Len(srcs)]
    ELSE LET r == SourceGetTile(srcs[i], c)
         IN  IF r \notin {"absent", "error"} THEN [tile |-> r, asked |-> i]
             ELSE MutSkipErrorsFrom(srcs, i + 1, c)
MutGetTileSkipsErrors(srcs, c) == MutSkipErrorsFrom(srcs, 1, c)

\* TileCollection::get_tile
TileCollectionGetTile(srcs, c) == GetTileFrom(srcs, 1, c)

\* TileCollection::generate_user_pmtiles_path, for the Uuid::new_v4 drawn
UuidNames == <<"u1", "u2", "u3", "u4">>
generate_user_pmtiles_path(n) ==
    WithExtension(Append(user_extracts_root, Comp(UuidNames[n], "")), "pmtiles")

\* A containment check against the collection's root instead of dir
MutWithinFileRoot(path, dir) == StartsWith(Canonicalize(path), FileRoot)

\* is_path_within_dir: both paths canonicalized, then Path::starts_with
is_path_within_dir(path, dir) ==
    StartsWith(Canonicalize(path), Canonicalize(dir))

\* An add_source that puts the new source in front of the others
MutAddSourceInFront(srcs, disk, path) ==
    IF ~(HasFileName(path) /\ HasFileName(Parent(path)))
    THEN [ok |-> FALSE, srcs |-> srcs, file_name |-> "none"]
    ELSE IF ~Exists(disk, path) \/ disk[Canonicalize(path)] \notin Archives
    THEN [ok |-> FALSE, srcs |-> srcs, file_name |-> "none"]
    ELSE [ok |-> TRUE,
          srcs |-> <<[path |-> path,
                      file_name |-> path[Len(path)],
                      content |-> disk[Canonicalize(path)]]>> \o srcs,
          file_name |-> path[Len(path)]]

\* An add_source that pushes the source before it opens the archive
MutAddSourcePushesFirst(srcs, disk, path) ==
    IF ~(HasFileName(path) /\ HasFileName(Parent(path)))
    THEN [ok |-> FALSE, srcs |-> srcs, file_name |-> "none"]
    ELSE IF ~Exists(disk, path) \/ disk[Canonicalize(path)] \notin Archives
    THEN [ok |-> FALSE,
          srcs |-> Append(srcs, [path |-> path,
                                 file_name |-> path[Len(path)],
                                 content |-> "garbage"]),
          file_name |-> "none"]
    ELSE [ok |-> TRUE,
          srcs |-> Append(srcs, [path |-> path,
                                 file_name |-> path[Len(path)],
                                 content |-> disk[Canonicalize(path)]]),
          file_name |-> path[Len(path)]]

\* TileCollection::add_source: [ok, srcs, file_name].  The path needs a
\* file name and a named parent, the file must open as an archive, and its
\* metadata must be readable; only then is the source pushed.  A source
\* keeps the content its reader mapped when it was opened.
add_source(srcs, disk, path) ==
    IF ~(HasFileName(path) /\ HasFileName(Parent(path)))
    THEN [ok |-> FALSE, srcs |-> srcs, file_name |-> "none"]
    ELSE IF ~Exists(disk, path) \/ disk[Canonicalize(path)] \notin Archives
    THEN [ok |-> FALSE, srcs |-> srcs, file_name |-> "none"]
    ELSE [ok |-> TRUE,
          srcs |-> Append(srcs, [path |-> path,
                                 file_name |-> path[Len(path)],
                                 content |-> disk[Canonicalize(path)]]),
          file_name |-> path[Len(path)]]

\* add_source with the error it returns told apart, [res, srcs, file_name];
\* fs::metadata(path)? comes after the archive was opened and before the
\* push, and metadata_ok says whether it succeeds
AddSourceResult(srcs, disk, path, metadata_ok) ==
    LET r == add_source(srcs, disk, path)
    IN  IF ~(HasFileName(path) /\ HasFileName(Parent(path)))
        THEN [res |-> "invalid_path", srcs |-> r.srcs, file_name |-> r.file_name]
        ELSE IF ~r.ok
        THEN [res |-> "open_error", srcs |-> r.srcs, file_name |-> r.file_name]
        ELSE IF ~metadata_ok
        THEN [res |-> "metadata_error", srcs |-> srcs, file_name |-> "none"]
        ELSE [res |-> "ok", srcs |-> r.srcs, file_name |-> r.file_name]

\* Iterator::position over record.file_name: 0 for None
RECURSIVE PositionFrom(_, _, _)
PositionFrom(srcs, i, file_name) ==
    IF i > Len(srcs) THEN 0
    ELSE IF srcs[i].file_name = file_name THEN i
    ELSE PositionFrom(srcs, i + 1, file_name)

Position(srcs, file_name) == PositionFrom(srcs, 1, file_name)

\* Vec::remove
RemoveAt(srcs, pos) ==
    SubSeq(srcs, 1, pos - 1) \o SubSeq(srcs, pos + 1, Len(srcs))

\* TileCollection::remove_extract: [res, srcs, disk]
remove_extract(srcs, disk, file_name) ==
    LET pos == Position(srcs, file_name)
    IN  IF pos = 0
        THEN [res |-> "not_found", srcs |-> srcs, disk |-> disk]
        ELSE IF ~Exists(disk, srcs[pos].path)
        THEN [res |-> "panic", srcs |-> srcs, disk |-> disk]
        ELSE IF ~is_path_within_dir(srcs[pos].path, user_extracts_root)
        THEN [res |-> "outside_user_dir", srcs |-> srcs, disk |-> disk]
        ELSE [res |-> "ok",
              srcs |-> RemoveAt(srcs, pos),
              disk |-> Del(disk, srcs[pos].path)]

\* fs::read_dir(dir): the files directly inside dir, as entry paths
ReadDir(disk, dir) == {p \in DOMAIN disk : Len(p) > 0 /\ Parent(p) = dir}

\* The orders in which read_dir may yield a set of entries
RECURSIVE Orders(_)
Orders(S) ==
    IF S = {} THEN {<<>>}
    ELSE UNION {{<<x>> \o o : o \in Orders(S \ {x})} : x \in S}

\* A scan that gives up at the first archive it cannot add
RECURSIVE MutLoadEntriesStopsAtFailure(_, _, _)
MutLoadEntriesStopsAtFailure(srcs, disk, entries) ==
    IF entries = <<>> THEN srcs
    ELSE IF Extension(entries[1]) # "pmtiles"
    THEN MutLoadEntriesStopsAtFailure(srcs, disk, Tail(entries))
    ELSE IF ~add_source(srcs, disk, entries[1]).ok THEN srcs
    ELSE MutLoadEntriesStopsAtFailure(add_source(srcs, disk, entries[1]).srcs,
                                      disk, Tail(entries))

\* A scan that tries every entry, whatever its extension
RECURSIVE MutLoadEntriesAnyExtension(_, _, _)
MutLoadEntriesAnyExtension(srcs, disk, entries) ==
    IF entries = <<>> THEN srcs
    ELSE MutLoadEntriesAnyExtension(add_source(srcs, disk, entries[1]).srcs,
                                    disk, Tail(entries))

\* The loop of load_tiles_from_storage over the entries still to visit:
\* other extensions are skipped, a failing add_source is logged and skipped
RECURSIVE LoadEntries(_, _, _)
LoadEntries(srcs, disk, entries) ==
    IF entries = <<>> THEN srcs
    ELSE IF Extension(entries[1]) # "pmtiles"
    THEN LoadEntries(srcs, disk, Tail(entries))
    ELSE LoadEntries(add_source(srcs, disk, entries[1]).srcs, disk, Tail(entries))

----------------------------------------------------------------------------
(* The tile HTTP route's parsing (server/tileserver.rs).  The last path     *)
(* segment is a string: here the sequence of its characters.               *)

Digits == <<"0", "1", "2", "3", "4", "5", "6", "7", "8", "9">>
IsDigit(ch) == \E d \in 1..10 : Digits[d] = ch
DigitVal(ch) == (CHOOSE d \in 1..10 : Digits[d] = ch) - 1

PbfSuffix == <<".", "p", "b", "f">>

\* u32::MAX, 4294967295, digit by digit
U32MaxDigits == <<4, 2, 9, 4, 9, 6, 7, 2, 9, 5>>

\* str::strip_suffix: [some, rest]
StripSuffix(str, suffix) ==
    IF Len(str) >= Len(suffix)
       /\ SubSeq(str, Len(str) - Len(suffix) + 1, Len(str)) = suffix
    THEN [some |-> TRUE, rest |-> SubSeq(str, 1, Len(str) - Len(suffix))]
    ELSE [some |-> FALSE, rest |-> <<>>]

RECURSIVE DigitsValue(_, _)
DigitsValue(str, acc) ==
    IF str = <<>> THEN acc
    ELSE DigitsValue(Tail(str), 10 * acc + DigitVal(str[1]))

RECURSIVE DropZeros(_)
DropZeros(str) ==
    IF str # <<>> /\ str[1] = "0" THEN DropZeros(Tail(str)) ELSE str

\* The digits spell a number above u32::MAX
Overflows(str) ==
    LET d == DropZeros(str)
    IN  \/ Len(d) > Len(U32MaxDigits)
        \/ /\ Len(d) = Len(U32MaxDigits)
           /\ \E i \in 1..Len(d) :
                /\ DigitVal(d[i]) > U32MaxDigits[i]
                /\ \A j \in 1..(i - 1) : DigitVal(d[j]) = U32MaxDigits[j]

\* str::parse::<u32>: an optional "+", then one or more digits, no overflow
ParseU32(str) ==
    LET body == IF Len(str) > 0 /\ str[1] = "+" THEN Tail(str) ELSE str
    IN  IF body = <<>> \/ \E i \in 1..Len(body) : ~IsDigit(body[i])
        THEN [ok |-> FALSE, val |-> 0]
        ELSE IF Overflows(body)
        THEN [ok |-> FALSE, val |-> 0]
        ELSE [ok |-> TRUE, val |-> DigitsValue(body, 0)]

\* The requests the model sends: (z, x, y_with_ext)
Request(z, x, y_with_ext) == [z |-> z, x |-> x, y_with_ext |-> y_with_ext]
Requests ==
    { Request(0, 0, <<"0">> \o PbfSuffix),
      Request(1, 1, <<"0">> \o PbfSuffix),
      Request(0, 1, <<"0">> \o PbfSuffix),
      Request(0, 0, <<"a", "b", "c">> \o PbfSuffix),
      Request(1, 1, <<"0", ".", "p", "n", "g">>) }

----------------------------------------------------------------------------
(* The calls a host can make and what the network may answer.              *)

Dest(abs, comps) == [abs |-> abs, comps |-> comps]

\* The download_system_pmtiles_if_necessary calls the model makes:
\* (destination_filename, what source_url sends as the body).  The
\* destinations are "planet.pmtiles", "notes.txt" and
\* "../user/planet.pmtiles"
Downloads ==
    { <<Dest(FALSE, <<Comp("planet", "pmtiles")>>), "planet">>,
      <<Dest(FALSE, <<Comp("planet", "pmtiles")>>), "garbage">>,
      <<Dest(FALSE, <<Comp("notes", "txt")>>), "planet">>,
      <<Dest(FALSE, <<ParentDir, Comp("user", ""), Comp("planet", "pmtiles")>>),
        "planet">> }

\* A destination_filename that is an absolute path: "/srv/world.pmtiles"
AbsoluteDownload ==
    <<Dest(TRUE, <<Comp("srv", ""), Comp("world", "pmtiles")>>), "planet">>

\* file_name arguments of remove_pmtiles_extract
FileNames ==
    { Comp("planet", "pmtiles"), Comp("u0", "pmtiles"),
      Comp("missing", "pmtiles") }

\* The archive extract_to_writer writes for the plan
ExtractContent == "region"

NoLoc ==
    [op |-> "none", req |-> Request(0, 0, <<>>), coord |-> T00,
     file_name |-> Comp("", ""), dest |-> Dest(FALSE, <<>>), body |-> "none",
     path |-> <<>>, res |-> "none", tile |-> "none", asked |-> 0, status |-> 0,
     net |-> 0, wrote |-> FALSE, renamed |-> FALSE]

\* The disks HeadwayServer::new may find: system/planet.pmtiles and
\* user/u0.pmtiles with these contents ("none": no such file), and beside a
\* damaged extract a leftover temporary file and a file that is no archive
DiskWith(s, u) ==
    LET put(disk, dir, comp, content) == Put(disk, Append(dir, comp), content)
        d1 == IF s = "none" THEN <<>>
              ELSE put(<<>>, system_root, Comp("planet", "pmtiles"), s)
        d2 == IF u = "none" THEN d1
              ELSE put(d1, user_extracts_root, Comp("u0", "pmtiles"), u)
    IN  IF u = "damaged"
        THEN put(put(d2, user_extracts_root, Comp("u9", "tmp"), "partial"),
                 system_root, Comp("notes", "txt"), "garbage")
        ELSE d2

InitialDisks ==
    { DiskWith("none", "none"), DiskWith("none", "region"),
      DiskWith("none", "damaged"), DiskWith("garbage", "none"),
      DiskWith("planet", "damaged") }

----------------------------------------------------------------------------
(* Locks: tokio::sync::RwLock around the collection and the extractor.     *)

CollFree == collWriter = 0 /\ collReaders = {}
CollReadable == collWriter = 0
ExtFree == extWriter = 0

HoldsColl(t) == collWriter = t \/ t \in collReaders
HoldsExt(t) == extWriter = t

\* Dropping every guard the task holds
ReleaseAll(t) ==
    /\ collWriter' = IF collWriter = t THEN 0 ELSE collWriter
    /\ collReaders' = collReaders \ {t}
    /\ extWriter' = IF extWriter = t THEN 0 ELSE extWriter

Goto(t, step) == pc' = [pc EXCEPT ![t] = step]

Init ==
    /\ fs \in InitialDisks
    /\ sources = <<>>
    /\ started = FALSE
    /\ collWriter = 0
    /\ collReaders = {}
    /\ extWriter = 0
    /\ extReader = "none"
    /\ opened = 0
    /\ usedUuids = 0
    /\ calls = 0
    /\ pc = [t \in Tasks |-> "idle"]
    /\ loc = [t \in Tasks |-> NoLoc]

\* A scan that reads user/ before system/
MutLoadUserFirst ==
    /\ ~started
    /\ \E so \in Orders(ReadDir(fs, system_root)) :
       \E uo \in Orders(ReadDir(fs, user_extracts_root)) :
          sources' = LoadEntries(sources, fs, uo \o so)
    /\ started' = TRUE
    /\ UNCHANGED <<fs, collWriter, collReaders, extWriter, extReader, opened,
                   usedUuids, calls, pc, loc>>

\* HeadwayServer::new: TileCollection::load_tiles_from_storage on the empty
\* collection, system/ entries chained before user/ entries
LoadTilesFromStorage ==
    /\ ~started
    /\ \E so \in Orders(ReadDir(fs, system_root)) :
       \E uo \in Orders(ReadDir(fs, user_extracts_root)) :
          sources' = LoadEntries(sources, fs, so \o uo)
    /\ started' = TRUE
    /\ UNCHANGED <<fs, collWriter, collReaders, extWriter, extReader, opened,
                   usedUuids, calls, pc, loc>>

\* A host task makes one call, once the server is built; of the tasks that
\* have not called yet, which are alike, the lowest one calls first
CanCall(t) ==
    /\ started
    /\ pc[t] = "idle"
    /\ calls < MaxCalls
    /\ pc[t] = "idle" => \A u \in 1..(t - 1) : pc[u] # "idle"

StartCall(t, l, step) ==
    /\ calls' = calls + 1
    /\ loc' = [loc EXCEPT ![t] = l]
    /\ Goto(t, step)

\* What stays of a call once it has returned: what it was, its result, and
\* of an extract the output path, whether the rename was done, and the
\* file_name of the RegionRecord it returned
Returned(l) ==
    [NoLoc EXCEPT !.op = l.op, !.res = l.res, !.status = l.status,
                  !.path = IF l.op = "extract" THEN l.path ELSE <<>>,
                  !.file_name = IF l.op = "extract" THEN l.file_name ELSE @,
                  !.renamed = l.renamed]

Finish(t, l) ==
    /\ loc' = [loc EXCEPT ![t] = Returned(l)]
    /\ Goto(t, "done")

----------------------------------------------------------------------------
(* The tile route: tileserver::get_tile.                                   *)

\* The request arrives; the y segment is parsed before any lock is taken
CallGetTile(t, req) ==
    /\ CanCall(t)
    /\ LET stripped == StripSuffix(req.y_with_ext, PbfSuffix)
           y == ParseU32(stripped.rest)
           l == [NoLoc EXCEPT !.op = "get_tile", !.req = req]
       IN  IF stripped.some /\ y.ok
           THEN StartCall(t, [l EXCEPT !.coord = Coord(req.z, req.x, y.val)],
                          "gt_read")
           ELSE StartCall(t, Returned([l EXCEPT !.status = 400]), "done")
    /\ UNCHANGED <<fs, sources, started, collWriter, collReaders, extWriter,
                   extReader, opened, usedUuids>>

\* A route that also waits until nobody is inside the extractor
MutGtReadWaitsForExtractor(t) ==
    /\ pc[t] = "gt_read"
    /\ CollReadable
    /\ ExtFree
    /\ collReaders' = collReaders \cup {t}
    /\ LET r == TileCollectionGetTile(sources, loc[t].coord)
       IN  loc' = [loc EXCEPT ![t].tile = r.tile, ![t].asked = r.asked]
    /\ Goto(t, "gt_respond")
    /\ UNCHANGED <<fs, sources, started, collWriter, extWriter, extReader,
                   opened, usedUuids, calls>>

\* tile_collection.read().await, then collection.get_tile(z, x, y).await
GtRead(t) ==
    /\ pc[t] = "gt_read"
    /\ CollReadable
    /\ collReaders' = collReaders \cup {t}
    /\ LET r == TileCollectionGetTile(sources, loc[t].coord)
       IN  loc' = [loc EXCEPT ![t].tile = r.tile, ![t].asked = r.asked]
    /\ Goto(t, "gt_respond")
    /\ UNCHANGED <<fs, sources, started, collWriter, extWriter, extReader,
                   opened, usedUuids, calls>>

\* A route that answers a failed lookup like a missing tile
MutGtRespondErrorAsNotFound(t) ==
    /\ pc[t] = "gt_respond"
    /\ collReaders' = collReaders \ {t}
    /\ Finish(t, [loc[t] EXCEPT !.status =
                    IF loc[t].tile \in {"error", "absent"} THEN 404 ELSE 200])
    /\ UNCHANGED <<fs, sources, started, collWriter, extWriter, extReader,
                   opened, usedUuids, calls>>

\* The match on the lookup's result; the read guard is dropped
GtRespond(t) ==
    /\ pc[t] = "gt_respond"
    /\ collReaders' = collReaders \ {t}
    /\ Finish(t, [loc[t] EXCEPT !.status =
                    CASE loc[t].tile = "error" -> 500
                      [] loc[t].tile = "absent" -> 404
                      [] OTHER -> 200])
    /\ UNCHANGED <<fs, sources, started, collWriter, extWriter, extReader,
                   opened, usedUuids, calls>>

----------------------------------------------------------------------------
(* HeadwayServer::prepare_pmtiles_extract.                                 *)

CallPrepare(t) ==
    /\ CanCall(t)
    /\ StartCall(t, [NoLoc EXCEPT !.op = "prepare"], "pr_lock")
    /\ UNCHANGED <<fs, sources, started, collWriter, collReaders, extWriter,
                   extReader, opened, usedUuids>>

\* A prepare that enters the extractor without waiting for its guard
MutPrLockNoWait(t) ==
    /\ pc[t] = "pr_lock"
    /\ extWriter' = t
    /\ Goto(t, IF extReader = "none" THEN "pr_open" ELSE "pr_plan")
    /\ UNCHANGED <<fs, sources, started, collWriter, collReaders, extReader,
                   opened, usedUuids, calls, loc>>

\* self.extractor.write().await; Extractor::reader opens the backend only
\* when self.reader is None
PrLock(t) ==
    /\ pc[t] = "pr_lock"
    /\ ExtFree
    /\ extWriter' = t
    /\ Goto(t, IF extReader = "none" THEN "pr_open" ELSE "pr_plan")
    /\ UNCHANGED <<fs, sources, started, collWriter, collReaders, extReader,
                   opened, usedUuids, calls, loc>>

\* A reader() that opens the backend and does not keep it
MutReaderNotKept(t, next) ==
    \/ /\ opened' = opened + 1
       /\ loc' = [loc EXCEPT ![t].net = 1]
       /\ Goto(t, next)
       /\ UNCHANGED <<collWriter, collReaders, extWriter, extReader>>
    \/ /\ Finish(t, [loc[t] EXCEPT !.res = "error", !.net = 1])
       /\ ReleaseAll(t)
       /\ UNCHANGED <<extReader, opened>>

\* Extractor::reader with self.reader None: the backend opens and is kept,
\* or the open fails and the call returns the error
ExtractorReader(t, next) ==
    \/ /\ extReader' = "ready"
       /\ opened' = opened + 1
       /\ loc' = [loc EXCEPT ![t].net = 1]
       /\ Goto(t, next)
       /\ UNCHANGED <<collWriter, collReaders, extWriter>>
    \/ /\ Finish(t, [loc[t] EXCEPT !.res = "error", !.net = 1])
       /\ ReleaseAll(t)
       /\ UNCHANGED <<extReader, opened>>

PrOpen(t) ==
    /\ pc[t] = "pr_open"
    /\ ExtractorReader(t, "pr_plan")
    /\ UNCHANGED <<fs, sources, started, usedUuids, calls>>

\* extractor.prepare(bbox).await over the remote index, then the guard drops
PrPlan(t) ==
    /\ pc[t] = "pr_plan"
    /\ \/ Finish(t, [loc[t] EXCEPT !.res = "ok", !.net = 1])
       \/ Finish(t, [loc[t] EXCEPT !.res = "error", !.net = 1])
    /\ ReleaseAll(t)
    /\ UNCHANGED <<fs, sources, started, extReader, opened, usedUuids, calls>>

----------------------------------------------------------------------------
(* HeadwayServer::extract_pmtiles_region and, inside it,                   *)
(* Extractor::extract_pmtiles_region.                                      *)

TmpPath(t) == WithExtension(loc[t].path, "tmp")

\* The plan is one the host holds from a prepare_pmtiles_extract
CallExtract(t) ==
    /\ CanCall(t)
    /\ usedUuids < MaxExtracts
    /\ StartCall(t, [NoLoc EXCEPT !.op = "extract"], "ex_lockpath")
    /\ UNCHANGED <<fs, sources, started, collWriter, collReaders, extWriter,
                   extReader, opened, usedUuids>>

\* self.tile_collection.write().await
ExLockPath(t) ==
    /\ pc[t] = "ex_lockpath"
    /\ CollFree
    /\ collWriter' = t
    /\ Goto(t, "ex_genpath")
    /\ UNCHANGED <<fs, sources, started, collReaders, extWriter, extReader,
                   opened, usedUuids, calls, loc>>

\* A step 1 that keeps the collection guard for the rest of the call
MutExGenPathKeepsGuard(t) ==
    /\ pc[t] = "ex_genpath"
    /\ usedUuids' = usedUuids + 1
    /\ loc' = [loc EXCEPT ![t].path = generate_user_pmtiles_path(usedUuids + 1)]
    /\ Goto(t, "ex_lockext")
    /\ UNCHANGED <<fs, sources, started, collWriter, collReaders, extWriter,
                   extReader, opened, calls>>

\* A step 1 that registers the output path as soon as it is generated
MutExGenPathRegisters(t) ==
    /\ pc[t] = "ex_genpath"
    /\ usedUuids' = usedUuids + 1
    /\ loc' = [loc EXCEPT ![t].path = generate_user_pmtiles_path(usedUuids + 1)]
    /\ sources' = Append(sources,
                    [path |-> generate_user_pmtiles_path(usedUuids + 1),
                     file_name |-> Comp(UuidNames[usedUuids + 1], "pmtiles"),
                     content |-> ExtractContent])
    /\ collWriter' = 0
    /\ Goto(t, "ex_lockext")
    /\ UNCHANGED <<fs, started, collReaders, extWriter, extReader, opened,
                   calls>>

\* generate_user_pmtiles_path(); the guard drops at the end of the block
ExGenPath(t) ==
    /\ pc[t] = "ex_genpath"
    /\ usedUuids' = usedUuids + 1
    /\ loc' = [loc EXCEPT ![t].path = generate_user_pmtiles_path(usedUuids + 1)]
    /\ collWriter' = 0
    /\ Goto(t, "ex_lockext")
    /\ UNCHANGED <<fs, sources, started, collReaders, extWriter, extReader,
                   opened, calls>>

\* self.extractor.write().await
ExLockExt(t) ==
    /\ pc[t] = "ex_lockext"
    /\ ExtFree
    /\ extWriter' = t
    /\ Goto(t, IF extReader = "none" THEN "ex_open" ELSE "ex_create")
    /\ UNCHANGED <<fs, sources, started, collWriter, collReaders, extReader,
                   opened, usedUuids, calls, loc>>

ExOpen(t) ==
    /\ pc[t] = "ex_open"
    /\ ExtractorReader(t, "ex_create")
    /\ UNCHANGED <<fs, sources, started, usedUuids, calls>>

\* File::create(&tmp_path)?
ExCreate(t) ==
    /\ pc[t] = "ex_create"
    /\ \/ /\ fs' = Put(fs, TmpPath(t), "partial")
          /\ loc' = [loc EXCEPT ![t].wrote = TRUE]
          /\ Goto(t, "ex_stream")
          /\ UNCHANGED <<collWriter, collReaders, extWriter>>
       \/ /\ Finish(t, [loc[t] EXCEPT !.res = "error"])
          /\ ReleaseAll(t)
          /\ UNCHANGED fs
    /\ UNCHANGED <<sources, started, extReader, opened, usedUuids,
                   calls>>

\* extractor.extract_to_writer(plan, &mut output_file).await?: the tile
\* bytes stream from the remote archive into the BufWriter
ExStream(t) ==
    /\ pc[t] = "ex_stream"
    /\ \/ /\ loc' = [loc EXCEPT ![t].net = 1]
          /\ Goto(t, "ex_flush")
          /\ UNCHANGED <<collWriter, collReaders, extWriter>>
       \/ /\ Finish(t, [loc[t] EXCEPT !.res = "error", !.net = 1])
          /\ ReleaseAll(t)
    /\ UNCHANGED <<fs, sources, started, extReader, opened, usedUuids, calls>>

\* drop(output_file): BufWriter's drop writes out what is still buffered
\* and closes the file; an error of that last write is discarded by the
\* drop, and the file then lacks its tail
ExFlush(t) ==
    /\ pc[t] = "ex_flush"
    /\ \/ fs' = Put(fs, TmpPath(t), ExtractContent)
       \/ fs' = Put(fs, TmpPath(t), "truncated")
    /\ Goto(t, "ex_rename")
    /\ UNCHANGED <<sources, started, collWriter, collReaders, extWriter,
                   extReader, opened, usedUuids, calls, loc>>

\* An extract that keeps the extractor guard while it goes on to register
MutExRenameKeepsGuard(t) ==
    /\ pc[t] = "ex_rename"
    /\ \/ /\ Exists(fs, TmpPath(t))
          /\ fs' = Put(Del(fs, TmpPath(t)), loc[t].path,
                       fs[Canonicalize(TmpPath(t))])
          /\ loc' = [loc EXCEPT ![t].renamed = TRUE]
          /\ Goto(t, "ex_lockreg")
          /\ UNCHANGED <<collWriter, collReaders, extWriter>>
       \/ /\ Finish(t, [loc[t] EXCEPT !.res = "error"])
          /\ ReleaseAll(t)
          /\ UNCHANGED fs
    /\ UNCHANGED <<sources, started, extReader, opened, usedUuids,
                   calls>>

\* fs::metadata(&tmp_path)?, fs::rename(&tmp_path, output_path)?, and the
\* extractor guard drops at the end of the block
ExRename(t) ==
    /\ pc[t] = "ex_rename"
    /\ \/ /\ Exists(fs, TmpPath(t))
          /\ fs' = Put(Del(fs, TmpPath(t)), loc[t].path,
                       fs[Canonicalize(TmpPath(t))])
          /\ loc' = [loc EXCEPT ![t].renamed = TRUE]
          /\ Goto(t, "ex_lockreg")
       \/ /\ Finish(t, [loc[t] EXCEPT !.res = "error"])
          /\ UNCHANGED fs
    /\ ReleaseAll(t)
    /\ UNCHANGED <<sources, started, extReader, opened, usedUuids,
                   calls>>

\* self.tile_collection.write().await
ExLockReg(t) ==
    /\ pc[t] = "ex_lockreg"
    /\ CollFree
    /\ collWriter' = t
    /\ Goto(t, "ex_register")
    /\ UNCHANGED <<fs, sources, started, collReaders, extWriter, extReader,
                   opened, usedUuids, calls, loc>>

\* An extract that returns without registering what it wrote
MutExRegisterSkipsAddSource(t) ==
    /\ pc[t] = "ex_register"
    /\ Finish(t, [loc[t] EXCEPT !.res = "ok",
                                !.file_name = loc[t].path[Len(loc[t].path)]])
    /\ ReleaseAll(t)
    /\ UNCHANGED <<fs, sources, started, extReader, opened, usedUuids, calls>>

\* collection.add_source(&output_path).await?
ExRegister(t) ==
    /\ pc[t] = "ex_register"
    /\ LET r == add_source(sources, fs, loc[t].path)
       IN  /\ sources' = r.srcs
           /\ Finish(t, [loc[t] EXCEPT
                          !.res = IF r.ok THEN "ok" ELSE "error",
                          !.file_name = IF r.ok THEN r.file_name ELSE @])
    /\ ReleaseAll(t)
    /\ UNCHANGED <<fs, started, extReader, opened, usedUuids, calls>>

----------------------------------------------------------------------------
(* HeadwayServer::remove_pmtiles_extract.                                  *)

CallRemove(t, file_name) ==
    /\ CanCall(t)
    /\ StartCall(t, [NoLoc EXCEPT !.op = "remove", !.file_name = file_name],
                 "rm_remove")
    /\ UNCHANGED <<fs, sources, started, collWriter, collReaders, extWriter,
                   extReader, opened, usedUuids>>

\* self.tile_collection.write().await, tile_collection.remove_extract(
\* file_name)?, and the guard drops on return and on the unwinding of a
\* failed assert: nothing is awaited while the guard is held
RmRemove(t) ==
    /\ pc[t] = "rm_remove"
    /\ CollFree
    /\ LET r == remove_extract(sources, fs, loc[t].file_name)
       IN  /\ sources' = r.srcs
           /\ fs' = r.disk
           /\ Finish(t, [loc[t] EXCEPT !.res = r.res])
    /\ ReleaseAll(t)
    /\ UNCHANGED <<started, extReader, opened, usedUuids, calls>>

----------------------------------------------------------------------------
(* HeadwayServer::download_system_pmtiles_if_necessary.                    *)

CallDownload(t, dest, body) ==
    /\ CanCall(t)
    /\ StartCall(t, [NoLoc EXCEPT !.op = "download", !.dest = dest,
                                  !.body = body], "dl_check")
    /\ UNCHANGED <<fs, sources, started, collWriter, collReaders, extWriter,
                   extReader, opened, usedUuids>>

\* A download that never looks whether the destination exists
MutDlCheckNoExists(t) ==
    /\ pc[t] = "dl_check"
    /\ CollReadable
    /\ collReaders' = collReaders \ {t}
    /\ LET destination_path == Push(system_root, loc[t].dest)
           l == [loc[t] EXCEPT !.path = destination_path]
       IN  IF Extension(destination_path) # "pmtiles"
           THEN Finish(t, [l EXCEPT !.res = "invalid_input"])
           ELSE /\ loc' = [loc EXCEPT ![t] = l]
                /\ Goto(t, "dl_fetch")
    /\ UNCHANGED <<fs, sources, started, collWriter, extWriter, extReader,
                   opened, usedUuids, calls>>

\* A download that does not look at the destination's extension
MutDlCheckNoExtension(t) ==
    /\ pc[t] = "dl_check"
    /\ CollReadable
    /\ collReaders' = collReaders \ {t}
    /\ LET destination_path == Push(system_root, loc[t].dest)
           l == [loc[t] EXCEPT !.path = destination_path]
       IN  IF Exists(fs, destination_path)
           THEN Finish(t, [l EXCEPT !.res = "ok"])
           ELSE /\ loc' = [loc EXCEPT ![t] = l]
                /\ Goto(t, "dl_fetch")
    /\ UNCHANGED <<fs, sources, started, collWriter, extWriter, extReader,
                   opened, usedUuids, calls>>

\* self.tile_collection.read().await, system_root() and the guard drops
\* with nothing awaited in between; push(destination_filename); the
\* extension check; the fs::exists check
DlCheck(t) ==
    /\ pc[t] = "dl_check"
    /\ CollReadable
    /\ collReaders' = collReaders \ {t}
    /\ LET destination_path == Push(system_root, loc[t].dest)
           l == [loc[t] EXCEPT !.path = destination_path]
       IN  IF Extension(destination_path) # "pmtiles"
           THEN Finish(t, [l EXCEPT !.res = "invalid_input"])
           ELSE IF Exists(fs, destination_path)
           THEN Finish(t, [l EXCEPT !.res = "ok"])
           ELSE /\ loc' = [loc EXCEPT ![t] = l]
                /\ Goto(t, "dl_fetch")
    /\ UNCHANGED <<fs, sources, started, collWriter, extWriter, extReader,
                   opened, usedUuids, calls>>

\* reqwest::get(source_url).await?, response.bytes().await?, and
\* std::fs::write(&destination_path, bytes)?, which truncates the file and
\* may fail after that
DlFetch(t) ==
    /\ pc[t] = "dl_fetch"
    /\ \/ /\ fs' = Put(fs, loc[t].path, loc[t].body)
          /\ loc' = [loc EXCEPT ![t].net = 1, ![t].wrote = TRUE]
          /\ Goto(t, "dl_lockreg")
       \/ /\ Finish(t, [loc[t] EXCEPT !.res = "error", !.net = 1])
          /\ UNCHANGED fs
       \/ /\ fs' = Put(fs, loc[t].path, "partial")
          /\ Finish(t, [loc[t] EXCEPT !.res = "error", !.net = 1,
                                      !.wrote = TRUE])
    /\ UNCHANGED <<sources, started, collWriter, collReaders, extWriter,
                   extReader, opened, usedUuids, calls>>

\* self.tile_collection.write().await
DlLockReg(t) ==
    /\ pc[t] = "dl_lockreg"
    /\ CollFree
    /\ collWriter' = t
    /\ Goto(t, "dl_register")
    /\ UNCHANGED <<fs, sources, started, collReaders, extWriter, extReader,
                   opened, usedUuids, calls, loc>>

\* collection.add_source(&destination_path).await?
DlRegister(t) ==
    /\ pc[t] = "dl_register"
    /\ LET r == add_source(sources, fs, loc[t].path)
       IN  /\ sources' = r.srcs
           /\ Finish(t, [loc[t] EXCEPT !.res = IF r.ok THEN "ok" ELSE "error"])
    /\ ReleaseAll(t)
    /\ UNCHANGED <<fs, started, extReader, opened, usedUuids, calls>>

----------------------------------------------------------------------------
(* A host may drop the future of an API call while it is suspended at an   *)
(* await: the guards it holds are dropped, nothing else is undone.  The    *)
(* awaits listed are those at which the call has already done something;  *)
(* a call dropped earlier, or a dropped prepare or remove, is an unmade or *)
(* a failed call.                                                          *)

AwaitPoints ==
    { "ex_lockext", "ex_open", "ex_stream", "ex_lockreg", "ex_register",
      "dl_fetch", "dl_lockreg", "dl_register" }

Abandon(t) ==
    /\ pc[t] \in AwaitPoints
    /\ Finish(t, [loc[t] EXCEPT !.res = "abandoned"])
    /\ ReleaseAll(t)
    /\ UNCHANGED <<fs, sources, started, extReader, opened, usedUuids, calls>>

----------------------------------------------------------------------------

Next ==
    \/ LoadTilesFromStorage
    \/ \E t \in Tasks :
        \/ \E req \in Requests : CallGetTile(t, req)
        \/ GtRead(t)
        \/ GtRespond(t)
        \/ CallPrepare(t)
        \/ PrLock(t)
        \/ PrOpen(t)
        \/ PrPlan(t)
        \/ CallExtract(t)
        \/ ExLockPath(t)
        \/ ExGenPath(t)
        \/ ExLockExt(t)
        \/ ExOpen(t)
        \/ ExCreate(t)
        \/ ExStream(t)
        \/ ExFlush(t)
        \/ ExRename(t)
        \/ ExLockReg(t)
        \/ ExRegister(t)
        \/ \E file_name \in FileNames : CallRemove(t, file_name)
        \/ RmRemove(t)
        \/ \E d \in Downloads : CallDownload(t, d[1], d[2])
        \/ DlCheck(t)
        \/ DlFetch(t)
        \/ DlLockReg(t)
        \/ DlRegister(t)
        \/ Abandon(t)

Spec == Init /\ [][Next]_vars

\* The scheduler runs a task that can run, and what is done under a
\* collection guard is local and ends: a lookup, the path generation, an
\* add_source.  Nothing is assumed of the network: a task inside the
\* extractor or in a download may stay there forever.
FairSpec ==
    /\ Spec
    /\ \A t \in Tasks :
         /\ WF_vars(GtRead(t))
         /\ WF_vars(GtRespond(t))
         /\ WF_vars(ExGenPath(t))
         /\ WF_vars(ExRegister(t))
         /\ WF_vars(DlRegister(t))

\* The startup scan alone, over every disk that has each of four files with
\* any of these contents or not at all
ScanFiles ==
    << Append(system_root, Comp("planet", "pmtiles")),
       Append(system_root, Comp("notes", "txt")),
       Append(user_extracts_root, Comp("u0", "pmtiles")),
       Append(user_extracts_root, Comp("u9", "pmtiles")) >>

ScanContents == {"none", "planet", "damaged", "garbage"}

ScanDisks ==
    { [p \in {ScanFiles[i] : i \in {j \in 1..Len(ScanFiles) : c[j] # "none"}}
         |-> c[CHOOSE i \in 1..Len(ScanFiles) : ScanFiles[i] = p]] :
      c \in [1..Len(ScanFiles) -> ScanContents] }

ScanInit ==
    /\ fs \in ScanDisks
    /\ sources = <<>>
    /\ started = FALSE
    /\ collWriter = 0
    /\ collReaders = {}
    /\ extWriter = 0
    /\ extReader = "none"
    /\ opened = 0
    /\ usedUuids = 0
    /\ calls = 0
    /\ pc = [t \in Tasks |-> "idle"]
    /\ loc = [t \in Tasks |-> NoLoc]

ScanNext == LoadTilesFromStorage

ScanSpec == ScanInit /\ [][ScanNext]_vars

\* The same server with a host that also passes an absolute path as
\* destination_filename
NextAnyDest ==
    \/ Next
    \/ \E t \in Tasks :
          CallDownload(t, AbsoluteDownload[1], AbsoluteDownload[2])

SpecAnyDest == Init /\ [][NextAnyDest]_vars

\* The collection used on its own: after the scan a host calls the public
\* add_source with these paths: "", "planet.pmtiles",
\* "tiles/system/../planet.pmtiles", and files under tiles/ that the disk
\* may or may not have
AddPaths ==
    { <<>>,
      <<Comp("planet", "pmtiles")>>,
      system_root \o <<ParentDir, Comp("planet", "pmtiles")>>,
      Append(system_root, Comp("planet", "pmtiles")),
      Append(system_root, Comp("notes", "txt")),
      Append(user_extracts_root, Comp("u0", "pmtiles")),
      Append(user_extracts_root, Comp("u9", "tmp")) }

\* collection.add_source(path).await on &mut self: one step
CallAddSource(t, path, metadata_ok) ==
    /\ CanCall(t)
    /\ LET r == AddSourceResult(sources, fs, path, metadata_ok)
       IN  /\ sources' = r.srcs
           /\ StartCall(t, [NoLoc EXCEPT !.op = "add_source", !.path = path,
                                         !.res = r.res,
                                         !.file_name = r.file_name],
                        "done")
    /\ UNCHANGED <<fs, started, collWriter, collReaders, extWriter, extReader,
                   opened, usedUuids>>

AddNext ==
    \/ LoadTilesFromStorage
    \/ \E t \in Tasks : \E path \in AddPaths : \E metadata_ok \in BOOLEAN :
          CallAddSource(t, path, metadata_ok)

AddSpec == Init /\ [][AddNext]_vars

\* A host whose tasks call again after a call has returned, making
\* downloads and removals: a returned call no longer counts as in progress.
\* The host stops calling once MaxSources sources are registered.
MaxSources == 3

Reuse(t) ==
    /\ pc[t] = "done"
    /\ Len(sources) < MaxSources
    /\ calls' = calls - 1
    /\ loc' = [loc EXCEPT ![t] = NoLoc]
    /\ Goto(t, "idle")
    /\ UNCHANGED <<fs, sources, started, collWriter, collReaders, extWriter,
                   extReader, opened, usedUuids>>

NextReuse ==
    \/ LoadTilesFromStorage
    \/ \E t \in Tasks :
        \/ \E file_name \in FileNames : CallRemove(t, file_name)
        \/ RmRemove(t)
        \/ \E d \in Downloads : CallDownload(t, d[1], d[2])
        \/ DlCheck(t)
        \/ DlFetch(t)
        \/ DlLockReg(t)
        \/ DlRegister(t)
        \/ Reuse(t)

SpecReuse == Init /\ [][NextReuse]_vars

\* The server process ends at any moment, with whatever its extractions
\* have left on the disk, and HeadwayServer::new builds a new one over the
\* same disk: empty collection, no reader, no call in progress.  Uuids
\* already drawn are not drawn again.  The extractions it cuts off leave
\* what extractions dropped by the host leave.
Restart ==
    /\ started
    /\ sources' = <<>>
    /\ started' = FALSE
    /\ collWriter' = 0
    /\ collReaders' = {}
    /\ extWriter' = 0
    /\ extReader' = "none"
    /\ opened' = 0
    /\ calls' = 0
    /\ pc' = [t \in Tasks |-> "idle"]
    /\ loc' = [t \in Tasks |-> NoLoc]
    /\ UNCHANGED <<fs, usedUuids>>

NextRestart ==
    \/ LoadTilesFromStorage
    \/ Restart
    \/ \E t \in Tasks :
        \/ CallExtract(t)
        \/ ExLockPath(t)
        \/ ExGenPath(t)
        \/ ExLockExt(t)
        \/ ExOpen(t)
        \/ ExCreate(t)
        \/ ExStream(t)
        \/ ExFlush(t)
        \/ ExRename(t)
        \/ ExLockReg(t)
        \/ ExRegister(t)

SpecRestart == Init /\ [][NextRestart]_vars

----------------------------------------------------------------------------
(* Properties.                                                             *)

\* A task at "gt_respond" holds the read guard and has the lookup's result:
\* what source i of the collection answers for the task's coordinate
Says(t, i) == SourceGetTile(sources[i], loc[t].coord)
Present(t, i) == Says(t, i) \notin {"absent", "error"}
AbsentBefore(t, i) == \A j \in 1..(i - 1) : Says(t, j) = "absent"

\* C1: get_tile returns the tile of the smallest-indexed source that has
\* one: a tile of a later source is never returned when an earlier source
\* has it, the absence of earlier sources hides no later tile, a later
\* source is asked only when every earlier one reports absence, and the
\* result is absence exactly when every source reports absence.  (What a
\* read error does to the lookup is C9.)
C1_FirstMatchWins ==
    \A t \in Tasks : pc[t] = "gt_respond" =>
        /\ \A i \in 1..Len(sources) :
             (Present(t, i) /\ AbsentBefore(t, i)) =>
                (loc[t].tile = Says(t, i) /\ loc[t].asked = i)
        /\ loc[t].tile \notin {"absent", "error"} =>
             \E i \in 1..Len(sources) :
                /\ loc[t].tile = Says(t, i)
                /\ \A j \in 1..(i - 1) : ~Present(t, j)
        /\ AbsentBefore(t, loc[t].asked)
        /\ (loc[t].tile = "absent") <=>
             (\A i \in 1..Len(sources) : Says(t, i) = "absent")

\* C1's case: the first source lacks the tile and the second one's is served
C1_Witness ==
    \E t \in Tasks :
        /\ pc[t] = "gt_respond"
        /\ Len(sources) >= 2
        /\ Says(t, 1) = "absent"
        /\ Present(t, 2)
        /\ loc[t].tile = Says(t, 2)

\* C9: a read error of source i, every earlier source reporting absence,
\* makes the lookup an error: no later source is asked and no tile of a
\* later source is returned.
C9_ReadErrorAbortsLookup ==
    \A t \in Tasks : pc[t] = "gt_respond" =>
        \A i \in 1..Len(sources) :
            (Says(t, i) = "error" /\ AbsentBefore(t, i)) =>
                (loc[t].tile = "error" /\ loc[t].asked = i)

\* C9's case: the first source fails to read a tile the second one holds
C9_Witness ==
    \E t \in Tasks :
        /\ pc[t] = "gt_respond"
        /\ Len(sources) >= 2
        /\ Says(t, 1) = "error"
        /\ Present(t, 2)
        /\ loc[t].tile = "error"
        /\ loc[t].asked = 1

\* The source remove_extract looks up for the task's file_name, 0 for none
LookedUp(t) == Position(sources, loc[t].file_name)
UnderUserDir(path) == StartsWith(Canonicalize(path), user_extracts_root)
RemoveReturns(t) == pc[t] = "rm_remove" /\ pc'[t] = "done"

\* C2: remove_extract of a file_name that resolves to a path outside user/
\* fails with the validation error although a record matches, and deletes
\* no file and removes no entry.
C2_RemoveOutsideUserDirRefused ==
    [][\A t \in Tasks :
        (RemoveReturns(t) /\ LookedUp(t) # 0
          /\ ~UnderUserDir(sources[LookedUp(t)].path)) =>
            /\ loc'[t].res = "outside_user_dir"
            /\ fs' = fs
            /\ sources' = sources]_vars

\* C2's case: a remove of a registered system archive was refused and the
\* archive is still on disk and registered
C2_Witness ==
    \E t \in Tasks :
        /\ pc[t] = "done"
        /\ loc[t].op = "remove"
        /\ loc[t].res = "outside_user_dir"
        /\ \E i \in 1..Len(sources) :
             /\ StartsWith(sources[i].path, system_root)
             /\ Exists(fs, sources[i].path)

\* The output paths generated so far
OutputPaths == {generate_user_pmtiles_path(n) : n \in 1..usedUuids}

\* C3: in every state output_path does not exist or holds the complete
\* extracted archive; the bytes go to a distinct temporary path, and a call
\* that has not renamed has not created output_path.
C3_OutputAbsentOrComplete ==
    /\ \A path \in OutputPaths :
         /\ WithExtension(path, "tmp") # path
         /\ Exists(fs, path) => fs[Canonicalize(path)] = ExtractContent
    /\ \A t \in Tasks :
         (loc[t].op = "extract" /\ loc[t].path # <<>> /\ ~loc[t].renamed) =>
            ~Exists(fs, loc[t].path)

\* The steps at which a task is inside a network request
NetworkPoints == {"pr_open", "pr_plan", "ex_open", "ex_stream", "dl_fetch"}

\* C4: no task holds the collection lock, shared or exclusive, while it is
\* inside a network request; extract's three steps hold one guard each, in
\* turn, and download's guard is gone before the fetch.
C4_NoCollectionLockAcrossNetwork ==
    \A t \in Tasks :
        /\ pc[t] \in NetworkPoints => ~HoldsColl(t)
        /\ ~(HoldsColl(t) /\ HoldsExt(t))
        /\ (loc[t].op = "extract" /\ HoldsColl(t)) =>
              pc[t] \in {"ex_genpath", "ex_register"}
        /\ (loc[t].op = "extract" /\ HoldsExt(t)) =>
              pc[t] \in {"ex_open", "ex_create", "ex_stream", "ex_flush",
                         "ex_rename"}
        /\ (loc[t].op = "download" /\ HoldsColl(t)) => pc[t] = "dl_register"

\* C4's case: one task streams the extract under the extractor guard while
\* another holds the collection lock
C4_Witness ==
    \E t, u \in Tasks :
        /\ t # u
        /\ pc[t] = "ex_stream"
        /\ HoldsExt(t)
        /\ HoldsColl(u)

\* The steps a task takes inside the Extractor
ExtractorPoints ==
    {"pr_open", "pr_plan", "ex_open", "ex_create", "ex_stream", "ex_flush",
     "ex_rename"}

\* C5: at most one prepare or extract is inside the Extractor at any time.
C5_OneCallInsideExtractor ==
    Cardinality({t \in Tasks : pc[t] \in ExtractorPoints}) <= 1

\* C5's case: an extract is streaming while a prepare waits for the guard
C5_Witness ==
    \E t, u \in Tasks :
        /\ pc[t] = "ex_stream"
        /\ pc[u] = "pr_lock"

\* C6: no two registered sources have the same file_name.
C6_UniqueFileNames ==
    \A i, j \in 1..Len(sources) :
        i # j => sources[i].file_name # sources[j].file_name

\* C7: an extract that has not renamed its download into place, whether in
\* flight, failed or abandoned, has no source registered for its output
\* path; the registration step is reached only after the rename.
C7_NoRegistrationBeforeRename ==
    \A t \in Tasks : loc[t].op = "extract" =>
        /\ ~loc[t].renamed =>
             \A i \in 1..Len(sources) : sources[i].path # loc[t].path
        /\ pc[t] \in {"ex_lockreg", "ex_register"} =>
             (loc[t].renamed /\ Exists(fs, loc[t].path))

\* C7's case: an extract failed or was abandoned before the rename and left
\* its temporary file behind
C7_Witness ==
    \E t \in Tasks :
        /\ pc[t] = "done"
        /\ loc[t].op = "extract"
        /\ loc[t].res \in {"error", "abandoned"}
        /\ ~loc[t].renamed
        /\ loc[t].path # <<>>
        /\ Exists(fs, WithExtension(loc[t].path, "tmp"))

\* The step of task t that leaves the existence check of a destination
\* that is on disk
LeavesCheckOfExisting(t) ==
    /\ pc[t] = "dl_check"
    /\ pc'[t] # "dl_check"
    /\ Exists(fs, Push(system_root, loc[t].dest))

\* What C8 promises of that step: success at once, no network request, no
\* file written, the registered sources as they were
ReturnsUntouched(t) ==
    /\ pc'[t] = "done"
    /\ loc'[t].res = "ok"
    /\ loc[t].net = 0
    /\ ~loc[t].wrote
    /\ fs' = fs
    /\ sources' = sources

\* C8 as stated: a download whose destination file already exists under
\* the system root makes no network request, writes no file, leaves the
\* registered sources unchanged and returns success.
C8_DownloadSkipsAnyExistingFile ==
    [][\A t \in Tasks : LeavesCheckOfExisting(t) => ReturnsUntouched(t)]_vars

\* C8 amended: a download whose destination has the .pmtiles extension and
\* already exists makes no network request, writes no file, leaves the
\* registered sources unchanged and returns success.
C8_DownloadSkipsExistingFile ==
    [][\A t \in Tasks :
        (LeavesCheckOfExisting(t)
          /\ Extension(Push(system_root, loc[t].dest)) = "pmtiles") =>
            ReturnsUntouched(t)]_vars

\* C8's case: a download returned success for a destination that is on
\* disk and was never registered
C8_Witness ==
    \E t \in Tasks :
        /\ pc[t] = "done"
        /\ loc[t].op = "download"
        /\ loc[t].res = "ok"
        /\ sources = <<>>
        /\ Exists(fs, Append(system_root, Comp("planet", "pmtiles")))

\* C10: remove_extract of a file_name no source has fails with not-found
\* and changes nothing; of a file_name that a source under user/ has, it
\* deletes that source's file and removes exactly that entry.
C10_RemoveExtractContract ==
    [][\A t \in Tasks : RemoveReturns(t) =>
        LET matching == {i \in 1..Len(sources) :
                            sources[i].file_name = loc[t].file_name}
        IN  /\ matching = {} =>
                 /\ loc'[t].res = "not_found"
                 /\ fs' = fs
                 /\ sources' = sources
            /\ (\E i \in matching : UnderUserDir(sources[i].path)) =>
                 \E i \in matching :
                    /\ UnderUserDir(sources[i].path)
                    /\ loc'[t].res = "ok"
                    /\ sources' = RemoveAt(sources, i)
                    /\ fs' = Del(fs, sources[i].path)]_vars

\* The path lies in the subtree of dir
Under(path, dir) == StartsWith(Canonicalize(path), dir)

\* C11: the path of every registered source lies under exactly one of
\* tiles/system/ and tiles/user/.
C11_SourcesUnderSystemOrUser ==
    \A i \in 1..Len(sources) :
        Under(sources[i].path, system_root)
            # Under(sources[i].path, user_extracts_root)

IsPrefix(a, b) == Len(a) <= Len(b) /\ SubSeq(b, 1, Len(a)) = a

\* C12: registration order is stable.  Every step leaves the source list as
\* it is, appends to it (one source per add_source once the server runs),
\* or is a remove_extract returning success that takes out one source under
\* user/ bearing the given file_name and keeps the rest in order.
C12_RegistrationOrderStable ==
    [][\/ /\ IsPrefix(sources, sources')
          /\ started => Len(sources') <= Len(sources) + 1
       \/ \E t \in Tasks : \E i \in 1..Len(sources) :
            /\ RemoveReturns(t)
            /\ loc'[t].res = "ok"
            /\ sources[i].file_name = loc[t].file_name
            /\ UnderUserDir(sources[i].path)
            /\ sources' = RemoveAt(sources, i)]_vars

\* C12's case: a source was appended behind two others and the middle one
\* was then removed
C12_Witness ==
    \E t \in Tasks :
        /\ pc[t] = "done"
        /\ loc[t].op = "remove"
        /\ loc[t].res = "ok"
        /\ Len(sources) = 2
        /\ StartsWith(sources[1].path, system_root)
        /\ UnderUserDir(sources[2].path)

\* C13: a get_tile request that waits for the collection read lock gets it
\* and completes, however long an extract's download stays inside the
\* extractor: no step of the extractor is among the fair ones.
C13_GetTileCompletesDuringDownload ==
    \A t \in Tasks : (pc[t] = "gt_read") ~> (pc[t] = "done")

\* C13's case: a lookup holds the read guard and has its result while an
\* extract streams under the extractor guard
C13_Witness ==
    \E t, u \in Tasks :
        /\ pc[u] = "ex_stream"
        /\ HoldsExt(u)
        /\ pc[t] = "gt_respond"
        /\ t \in collReaders

\* The steps a task takes inside a call
Proceeds(t) ==
    \/ GtRead(t) \/ GtRespond(t)
    \/ PrLock(t) \/ PrOpen(t) \/ PrPlan(t)
    \/ ExLockPath(t) \/ ExGenPath(t) \/ ExLockExt(t) \/ ExOpen(t)
    \/ ExCreate(t) \/ ExStream(t) \/ ExFlush(t) \/ ExRename(t)
    \/ ExLockReg(t) \/ ExRegister(t)
    \/ RmRemove(t)
    \/ DlCheck(t) \/ DlFetch(t) \/ DlLockReg(t) \/ DlRegister(t)

\* The steps at which a task waits for a lock
LockWaits ==
    {"gt_read", "pr_lock", "ex_lockpath", "ex_lockext", "ex_lockreg",
     "rm_remove", "dl_check", "dl_lockreg"}

\* Some call is in progress and every call in progress waits for a lock
AllWaiting ==
    /\ \E t \in Tasks : pc[t] \notin {"idle", "done"}
    /\ \A t \in Tasks : pc[t] \notin {"idle", "done"} => pc[t] \in LockWaits

\* C14: no task holds the collection lock and the extractor lock at the
\* same time, a task waiting for a lock holds none, and there is no
\* deadlock: when every call in progress waits for a lock, one of them can
\* take it.
C14_NeverBothLocksNoDeadlock ==
    /\ \A t \in Tasks :
         /\ ~(HoldsColl(t) /\ HoldsExt(t))
         /\ pc[t] \in LockWaits => (~HoldsColl(t) /\ ~HoldsExt(t))
    /\ AllWaiting => \E u \in Tasks : ENABLED Proceeds(u)

\* C14's case: an extract registers under the collection guard while
\* another call is already inside the extractor
C14_Witness ==
    \E t, u \in Tasks :
        /\ pc[t] = "ex_register"
        /\ collWriter = t
        /\ u # t
        /\ extWriter = u

\* C15: while an extract computes its output path (step 1) it holds the
\* collection lock shared, not exclusively, and a get_tile waiting for the
\* read lock can take it.
C15_PathStepHoldsSharedLock ==
    \A t \in Tasks : pc[t] = "ex_genpath" =>
        /\ collWriter # t
        /\ \A u \in Tasks : pc[u] = "gt_read" => ENABLED GtRead(u)

\* The steps at which a task is inside Extractor::reader with no reader yet,
\* and those it takes with the reader it got
OpenPoints == {"pr_open", "ex_open"}
ReaderPoints == ExtractorPoints \ OpenPoints

\* C16: the Extractor starts without a reader; a prepare or extract that
\* finds none opens the backend under the extractor guard, and every call
\* that finds one uses it; once there it stays; at most one backend is ever
\* opened; an open that fails leaves no reader, for the next call to retry.
C16_ReaderOpenedOnceAndKept ==
    /\ [](/\ opened <= 1
          /\ (extReader = "ready") <=> (opened = 1)
          /\ \A t \in Tasks :
               /\ pc[t] \in OpenPoints => (extReader = "none" /\ HoldsExt(t))
               /\ pc[t] \in ReaderPoints => extReader = "ready")
    /\ [][/\ extReader = "ready" => extReader' = "ready"
          /\ extReader' # extReader =>
               \E t \in Tasks : pc[t] \in OpenPoints /\ pc'[t] \in ReaderPoints
          /\ \A t \in Tasks :
               (pc[t] \in OpenPoints /\ pc'[t] = "done") =>
                  (extReader' = "none" /\ opened' = opened)]_vars

\* C16's case: an open has failed, there is still no reader, and the next
\* call is inside reader() to open the backend again
C16_Witness ==
    \E t, u \in Tasks :
        /\ pc[t] = "done"
        /\ loc[t].op \in {"prepare", "extract"}
        /\ loc[t].res = "error"
        /\ extReader = "none"
        /\ pc[u] \in OpenPoints

\* C17: a download whose destination does not have the .pmtiles extension
\* returns the validation error from its first step: no network request,
\* no file written, the collection unchanged.
C17_DownloadRejectsOtherExtensions ==
    [][\A t \in Tasks :
        (pc[t] = "dl_check" /\ pc'[t] # "dl_check"
          /\ Extension(Push(system_root, loc[t].dest)) # "pmtiles") =>
            /\ pc'[t] = "done"
            /\ loc'[t].res = "invalid_input"
            /\ loc[t].net = 0
            /\ ~loc[t].wrote
            /\ fs' = fs
            /\ sources' = sources]_vars

\* C17's case: a download to notes.txt was refused, and nothing was fetched
\* to that place
C17_Witness ==
    \E t \in Tasks :
        /\ pc[t] = "done"
        /\ loc[t].op = "download"
        /\ loc[t].res = "invalid_input"
        /\ ~Exists(fs, Append(system_root, Comp("notes", "txt")))

\* The files the scan visits, and those of them add_source takes
ScannedFiles == ReadDir(fs, system_root) \cup ReadDir(fs, user_extracts_root)
Loadable ==
    {p \in ScannedFiles :
        Extension(p) = "pmtiles" /\ add_source(<<>>, fs, p).ok}

\* C18: after load_tiles_from_storage the registered sources are exactly
\* the files of system/ and user/ that have the .pmtiles extension and that
\* add_source can open, one source each; an archive that fails to open and
\* a file of another extension are left out, and the scan goes on.
C18_ScanLoadsExactlyTheLoadable ==
    started =>
        /\ {sources[i].path : i \in 1..Len(sources)} = Loadable
        /\ Len(sources) = Cardinality(Loadable)
        /\ \A i \in 1..Len(sources) : Extension(sources[i].path) = "pmtiles"

\* C18's case: the scan met an archive that does not open and a file that
\* is no archive, and loaded the two good archives beside them
C18_Witness ==
    /\ started
    /\ Len(sources) = 2
    /\ \E p \in ScannedFiles : Extension(p) = "pmtiles" /\ p \notin Loadable
    /\ \E p \in ScannedFiles : Extension(p) # "pmtiles"

\* The request's last segment has the .pbf suffix and a y that parses
WellFormed(req) ==
    /\ StripSuffix(req.y_with_ext, PbfSuffix).some
    /\ ParseU32(StripSuffix(req.y_with_ext, PbfSuffix).rest).ok

\* C19: the route gives every request one status.  A request whose last
\* segment lacks .pbf or whose y does not parse gets 400 at once, the
\* collection not consulted; any other goes on to the lookup for (z, x, y)
\* and gets 200 with the bytes of the first source that has the tile, 404
\* when every source reports absence, 500 when the lookup fails.
C19_RouteStatus ==
    [][\A t \in Tasks :
        /\ \A req \in Requests : CallGetTile(t, req) =>
             IF WellFormed(req)
             THEN /\ pc'[t] = "gt_read"
                  /\ loc'[t].status = 0
                  /\ loc'[t].coord.z = req.z /\ loc'[t].coord.x = req.x
             ELSE /\ pc'[t] = "done"
                  /\ loc'[t].status = 400
                  /\ collReaders' = collReaders
        /\ (pc[t] = "gt_respond" /\ pc'[t] = "done") =>
             /\ loc'[t].status \in {200, 404, 500}
             /\ (loc'[t].status = 200) <=>
                  \E i \in 1..Len(sources) :
                     /\ Present(t, i)
                     /\ AbsentBefore(t, i)
                     /\ loc[t].tile = Says(t, i)
             /\ (loc'[t].status = 404) <=>
                  \A i \in 1..Len(sources) : Says(t, i) = "absent"
             /\ (loc'[t].status = 500) <=>
                  \E i \in 1..Len(sources) :
                     Says(t, i) = "error" /\ AbsentBefore(t, i)]_vars

\* C19's case: one request was refused with 400 and another got 500 from a
\* source that failed to read
C19_Witness ==
    \E t, u \in Tasks :
        /\ pc[t] = "done" /\ loc[t].op = "get_tile" /\ loc[t].status = 400
        /\ pc[u] = "done" /\ loc[u].op = "get_tile" /\ loc[u].status = 500

\* C20: an extract returns success only from its registration step, and
\* that step appends exactly one source: its path is the freshly generated
\* path under user/, the file is there, and the record returned is that
\* source's.  From then on the source is in the list every lookup walks: a
\* get_tile that finds all sources before it absent asks it, and serves
\* its tile when it has one.
C20_SuccessfulExtractIsServed ==
    [][\A t \in Tasks :
        /\ (pc[t] # "done" /\ pc'[t] = "done"
             /\ loc'[t].op = "extract" /\ loc'[t].res = "ok") =>
               /\ pc[t] = "ex_register"
               /\ Len(sources') = Len(sources) + 1
               /\ SubSeq(sources', 1, Len(sources)) = sources
               /\ sources'[Len(sources')].path = loc[t].path
               /\ loc[t].path \in OutputPaths
               /\ UnderUserDir(loc[t].path)
               /\ Exists(fs', loc[t].path)
               /\ loc'[t].file_name = sources'[Len(sources')].file_name
               /\ loc'[t].file_name = loc[t].path[Len(loc[t].path)]
        /\ (pc[t] = "gt_read" /\ pc'[t] = "gt_respond") =>
             \A i \in 1..Len(sources) :
                (sources[i].path \in OutputPaths /\ AbsentBefore(t, i)) =>
                   /\ loc'[t].asked >= i
                   /\ Says(t, i) # "absent" =>
                        (loc'[t].tile = Says(t, i) /\ loc'[t].asked = i)]_vars

\* C20's case: an extract has returned success, and a lookup that came
\* after it holds the tile that only the new source has
C20_Witness ==
    \E t, u \in Tasks :
        /\ pc[t] = "done"
        /\ loc[t].op = "extract"
        /\ loc[t].res = "ok"
        /\ pc[u] = "gt_respond"
        /\ loc[u].asked = Len(sources)
        /\ sources[Len(sources)].path = loc[t].path
        /\ loc[u].tile = "r00"
        /\ \A i \in 1..(Len(sources) - 1) : Says(u, i) = "absent"

\* C21: add_source is all-or-nothing.  When it returns an error (the path
\* has no file name or no named parent, the archive cannot be opened, the
\* metadata cannot be read) the source list is as before the call; when it
\* succeeds exactly one source is appended, and its record's file_name is
\* the final component of the given path.
C21_AddSourceAllOrNothing ==
    [][\A t \in Tasks :
        (pc[t] = "idle" /\ pc'[t] = "done" /\ loc'[t].op = "add_source") =>
            LET path == loc'[t].path
                res == loc'[t].res
            IN  /\ ( \/ ~HasFileName(path)
                     \/ ~HasFileName(Parent(path))
                     \/ ~Exists(fs, path)
                     \/ fs[Canonicalize(path)] \notin Archives
                     \/ res = "metadata_error" ) => res # "ok"
                /\ res # "ok" => sources' = sources
                /\ res = "ok" =>
                      /\ Len(sources') = Len(sources) + 1
                      /\ SubSeq(sources', 1, Len(sources)) = sources
                      /\ sources'[Len(sources')].file_name = path[Len(path)]
                      /\ sources'[Len(sources')].path = path
                      /\ loc'[t].file_name = path[Len(path)]]_vars

\* C21's case: with sources registered, one add_source failed at the
\* metadata of an archive it had opened and another succeeded
C21_Witness ==
    \E t, u \in Tasks :
        /\ pc[t] = "done" /\ loc[t].op = "add_source"
        /\ loc[t].res = "metadata_error"
        /\ pc[u] = "done" /\ loc[u].op = "add_source" /\ loc[u].res = "ok"
        /\ Len(sources) >= 2

\* C22: whenever download_system_pmtiles_if_necessary returns success, a
\* source for the destination file is registered in the collection, also
\* when the call returns early because the file already exists.
C22_DownloadSuccessMeansRegistered ==
    [][\A t \in Tasks :
        (pc[t] \in {"dl_check", "dl_register"} /\ pc'[t] = "done"
            /\ loc'[t].res = "ok") =>
            \E i \in 1..Len(sources') :
                Canonicalize(sources'[i].path) =
                    Canonicalize(Push(system_root, loc[t].dest))]_vars

\* C23: the assertion in remove_extract never fails: in every state reached
\* through interleavings of the API operations, with nothing else changing
\* the disk, the file of every registered source exists at its recorded
\* path.
C23_RegisteredFilesExist ==
    /\ \A i \in 1..Len(sources) : Exists(fs, sources[i].path)
    /\ \A t \in Tasks : loc[t].res # "panic"

\* Source i has the tile of coordinate c
HasTile(i, c) == SourceGetTile(sources[i], c) \notin {"absent", "error"}

\* C24: right after the startup scan every source loaded from system/
\* precedes every source loaded from user/, so for a coordinate that a
\* system archive and a user extract both have, get_tile returns the system
\* archive's tile (that of the first system archive that has it, the
\* archives before it having none).
C24_SystemBeforeUserAfterScan ==
    started =>
        /\ \A i, j \in 1..Len(sources) :
              (Under(sources[i].path, system_root)
                  /\ Under(sources[j].path, user_extracts_root)) => i < j
        /\ \A c \in {T00, T10} : \A i, j \in 1..Len(sources) :
              (/\ Under(sources[i].path, system_root) /\ HasTile(i, c)
               /\ Under(sources[j].path, user_extracts_root) /\ HasTile(j, c)
               /\ \A k \in 1..(i - 1) :
                     SourceGetTile(sources[k], c) = "absent") =>
                  /\ TileCollectionGetTile(sources, c).tile =
                        SourceGetTile(sources[i], c)
                  /\ TileCollectionGetTile(sources, c).asked = i

\* C24's case: the scan loaded a system archive and a user extract that
\* have different tiles for one coordinate
C24_Witness ==
    /\ started
    /\ \E i, j \in 1..Len(sources) :
          /\ Under(sources[i].path, system_root)
          /\ Under(sources[j].path, user_extracts_root)
          /\ HasTile(i, T10) /\ HasTile(j, T10)
          /\ SourceGetTile(sources[i], T10) # SourceGetTile(sources[j], T10)

\* C25: a temporary file left behind by a failed or abandoned extraction is
\* never registered as a source: the temporary path differs from the output
\* path, does not have the archive extension, is never passed to add_source
\* by the extract, and is skipped by the startup scan.
C25_TemporaryFileNeverRegistered ==
    /\ \A t \in Tasks : (loc[t].op = "extract" /\ loc[t].path # <<>>) =>
          /\ TmpPath(t) # loc[t].path
          /\ Extension(TmpPath(t)) # "pmtiles"
          /\ \A i \in 1..Len(sources) : sources[i].path # TmpPath(t)
    /\ \A i \in 1..Len(sources) : Extension(sources[i].path) # "tmp"

\* C25's case: an extraction was cut off before its rename, its temporary
\* file holds an archive, and a new server has scanned the disk
C25_Witness ==
    /\ started
    /\ usedUuids >= 1
    /\ calls = 0
    /\ \E p \in DOMAIN fs :
          /\ p = WithExtension(generate_user_pmtiles_path(1), "tmp")
          /\ fs[p] \in Archives

====
